---------------------------- MODULE Spec2Model ----------------------------
(***************************************************************************)
(* SkyBank: the transaction aggregation and reporting functions of         *)
(* src/services.py (duplicated in src/utils.py) and src/reports.py,        *)
(* as operations on an in-memory table.                                    *)
(*                                                                         *)
(* A table (pandas DataFrame) is a sequence of rows; every row carries its *)
(* index label `idx` (RangeIndex, 0-based) and one cell per column.        *)
(* Missing cells (NaN / NaT / None) are explicit:                          *)
(*   - a number cell is [na |-> BOOLEAN, v |-> Int];                       *)
(*   - a text cell is   [na |-> BOOLEAN, v |-> STRING];                    *)
(*   - a card cell is   [na |-> BOOLEAN, v |-> sequence of code points];   *)
(*   - a timestamp cell is [kind, day, sec], see below.                    *)
(* Money is counted in 1/100 of a currency unit, so that 1% of a whole     *)
(* amount is again an integer; binary floating-point rounding is not       *)
(* modelled.                                                               *)
(***************************************************************************)
EXTENDS Integers, Sequences, FiniteSets, TLC

VARIABLES
    cols,       \* the column names of the caller's table
    data,       \* the caller's table (the object passed to the operations)
    op,         \* the operation called last ("none" before any call)
    args,       \* the arguments of the last call
    input,      \* the rows of the caller's table when the last call was made
    err,        \* the failure of the last call, "none" when it returned
    result,     \* the value returned by the last call
    card_info,  \* calculate_card_info: the grouped frame (local card_info)
    top_frame,  \* get_top_5_transactions: the frame top_5_transactions
    report_file, \* the rows last written to a report file by report_decorator
    operations_file, \* the rows of the file the caller's table was loaded from
    transactions,    \* main: the table returned by the filter (local transactions)
    pc               \* the caller: the calls made so far on what earlier calls returned

vars == <<cols, data, op, args, input, err, result, card_info, top_frame, report_file,
          operations_file, transactions, pc>>

\* What no function of services.py or reports.py touches: the columns, the
\* file the table came from, and the locals of main.
host == <<operations_file, transactions, pc>>

-----------------------------------------------------------------------------
(* Bounds of the model and constants of the program *)

MaxFilterRows == 4
MaxCardRows == 3
MaxTopRows == 6
MaxReportRows == 2
MaxSearchRecords == 3
MaxMainRows == 3
MaxSharedRows == 2
MaxRefilterRows == 3

SecondsPerDay == 86400
WindowDays == 1
TopN == 5
ReportDays == 90
LastDigits == 4
CashbackPercent == 1

-----------------------------------------------------------------------------
(* Cells *)

Num(x) == [na |-> FALSE, v |-> x]
NaN == [na |-> TRUE, v |-> 0]
Txt(s) == [na |-> FALSE, v |-> s]
NoText == [na |-> TRUE, v |-> ""]
Card(s) == [na |-> FALSE, v |-> s]
NoCard == [na |-> TRUE, v |-> <<>>]

\* A timestamp cell.  kind is
\*   "dmy_hms"  text "DD.MM.YYYY HH:MM:SS" (day = the calendar day's ordinal,
\*              sec = HH*3600 + MM*60 + SS)
\*   "dmy"      text "DD.MM.YYYY" (date only)
\*   "junk"     text that is no date
\*   "datetime" a parsed date-time value (datetime64 / Timestamp)
\*   "nat"      the missing marker NaT
Cell(k, d, s) == [kind |-> k, day |-> d, sec |-> s]
NaT == Cell("nat", 0, 0)
DateTime(d, s) == Cell("datetime", d, s)

\* The position of a date-time value on the time line, in seconds.
Seconds(c) == c.day * SecondsPerDay + c.sec

\* The column names of the source, transliterated.
ColDate == "Data operatsii"
ColAmountOp == "Summa operatsii"
ColAmountPay == "Summa platezha"
ColCategory == "Kategoriya"
ColDescription == "Opisanie"
ColCard == "Nomer karty"
AllColumns == {ColDate, ColAmountOp, ColAmountPay, ColCategory, ColDescription, ColCard}

Row(i, ts, aop, apay, cat, desc, card) ==
    [idx |-> i, ts |-> ts, amount_op |-> aop, amount_pay |-> apay,
     category |-> cat, description |-> desc, card |-> card]

NoResult == <<>>
\* The arguments of a call besides the table: the date argument (kind "none"
\* when there is none), the category, whether the first argument is a table,
\* the clock reading the call took (kind "none" when it took none), and the
\* query of a search (a sequence of code points).
NoArgs ==
    [ref |-> Cell("none", 0, 0), category |-> Txt(""), is_table |-> TRUE,
     now |-> Cell("none", 0, 0), query |-> <<>>]


-----------------------------------------------------------------------------
(* Parsing of dates *)

\* A variant with a second attempt that takes a date without a time of day.
StrptimeYmdHmsOrDate(ref) == ref.kind \in {"ymd_hms", "ymd_hms_loose", "ymd"}

\* datetime.strptime(s, "%Y-%m-%d %H:%M:%S"): a text of that form parses, and
\* so does a text that differs from it only in month, day, hour, minute or
\* second written without the leading zero, or in more than one blank between
\* date and time ("ymd_hms_loose", such as 2023-7-27 9:05:00: the directives
\* %m %d %H %M %S take one or two digits); the value is the date-time named.
\* Every other text raises ValueError.
StrptimeYmdHmsOk(ref) == ref.kind \in {"ymd_hms", "ymd_hms_loose"}
StrptimeYmdHms(ref) == DateTime(ref.day, ref.sec)

\* A variant that also takes a date without a time of day.
ToDatetimeStrictDateOnly(c) ==
    CASE c.kind = "dmy_hms" -> DateTime(c.day, c.sec)
      [] c.kind = "dmy" -> DateTime(c.day, 0)
      [] c.kind = "datetime" -> c
      [] OTHER -> NaT

\* A variant that parses text only: a date-time value is coerced to NaT.
ToDatetimeStrictTextOnly(c) ==
    CASE c.kind = "dmy_hms" -> DateTime(c.day, c.sec)
      [] OTHER -> NaT

\* pd.to_datetime(column, format="%d.%m.%Y %H:%M:%S", errors="coerce") on
\* one cell: a text of exactly that form becomes its date-time, a date-time
\* value stays, everything else (other text, NaT) is coerced to NaT.
ToDatetimeStrict(c) ==
    CASE c.kind = "dmy_hms" -> DateTime(c.day, c.sec)
      [] c.kind = "datetime" -> c
      [] OTHER -> NaT

\* The table with its timestamp column replaced by the strict parse.
ParseColumnStrict(table) ==
    [i \in 1..Len(table) |-> [table[i] EXCEPT !.ts = ToDatetimeStrict(@)]]

-----------------------------------------------------------------------------
(* filter_transactions_by_date *)

\* start_date = end_date - pd.Timedelta(days=1), as a position in seconds.
FilterStart(end_date) == Seconds(end_date) - WindowDays * SecondsPerDay

\* A variant with the start of the window excluded.
InDateRangeOpenStart(c, end_date) ==
    /\ c.kind = "datetime"
    /\ Seconds(c) > FilterStart(end_date)
    /\ Seconds(c) <= Seconds(end_date)

\* (column >= start_date) & (column <= end_date) on one cell; a comparison
\* with NaT is False.
InDateRange(c, end_date) ==
    /\ c.kind = "datetime"
    /\ Seconds(c) >= FilterStart(end_date)
    /\ Seconds(c) <= Seconds(end_date)

\* A variant that parses the timestamp column of the table passed in.
ParsedInPlace(table) == ParseColumnStrict(table)

\* transactions_copy = transactions.copy(): the parse is assigned to the
\* columns of the copy, so the table passed in is afterwards what it was.
TransactionsAfterCopy(table) == table

\* The rows of the parsed copy inside the window, index labels kept.
FilteredTransactions(table, end_date) ==
    LET copy == ParseColumnStrict(table)
        Keep(r) == InDateRange(r.ts, end_date)
    IN  SelectSeq(copy, Keep)

\* The call filter_transactions_by_date(table, ref), but for what it leaves
\* of the table passed in.
FilterTransactionsByDateOf(columns, table, ref) ==
    /\ op' = "filter"
    /\ args' = [NoArgs EXCEPT !.ref = ref]
    /\ input' = table
    /\ IF ~StrptimeYmdHmsOk(ref)
         THEN /\ err' = "ValueError: invalid date-time format"
              /\ result' = NoResult
         ELSE IF ColDate \notin columns
         THEN /\ err' = "KeyError"
              /\ result' = NoResult
         ELSE /\ err' = "none"
              /\ result' = FilteredTransactions(table, StrptimeYmdHms(ref))
    /\ card_info' = <<>>
    /\ top_frame' = <<>>

\* The table passed in, after the call.
TableAfterFilter(columns, table, ref) ==
    IF StrptimeYmdHmsOk(ref) /\ ColDate \in columns
    THEN TransactionsAfterCopy(table) ELSE table

FilterTransactionsByDate(ref) ==
    /\ FilterTransactionsByDateOf(cols, data, ref)
    /\ data' = TableAfterFilter(cols, data, ref)
    /\ UNCHANGED <<cols, report_file, host>>

-----------------------------------------------------------------------------
(* calculate_card_info *)

\* Python's order on str: lexicographic by code point, a proper prefix first.
RECURSIVE StrLess(_, _)
StrLess(a, b) ==
    IF b = <<>> THEN FALSE
    ELSE IF a = <<>> THEN TRUE
    ELSE IF Head(a) # Head(b) THEN Head(a) < Head(b)
    ELSE StrLess(Tail(a), Tail(b))

\* The keys of groupby("Nomer karty") taken in order of first appearance
\* (what sort=False would give).
RECURSIVE FirstAppearance(_)
FirstAppearance(table) ==
    IF table = <<>> THEN <<>>
    ELSE LET rest == FirstAppearance(SubSeq(table, 1, Len(table) - 1))
             c == table[Len(table)].card
         IN  IF c.na \/ \E j \in 1..Len(rest) : rest[j] = c.v
             THEN rest
             ELSE Append(rest, c.v)

\* The keys of S in ascending order.
RECURSIVE Ascending(_)
Ascending(S) ==
    IF S = {} THEN <<>>
    ELSE LET m == CHOOSE x \in S : \A y \in S \ {x} : StrLess(x, y)
         IN  <<m>> \o Ascending(S \ {m})

\* A variant as groupby(sort=False) would give.
GroupKeysUnsorted(table) == FirstAppearance(table)

\* transactions.groupby("Nomer karty"): the distinct card numbers, rows with
\* a missing card number dropped (dropna=True), keys sorted (sort=True).
GroupKeys(table) ==
    Ascending({table[i].card.v : i \in {j \in 1..Len(table) : ~table[j].card.na}})

\* The amounts of the rows of one group, in row order.
GroupAmounts(table, key) ==
    LET InGroup(r) == ~r.card.na /\ r.card.v = key
        g == SelectSeq(table, InGroup)
    IN  [i \in 1..Len(g) |-> g[i].amount_op]

\* aggfunc="sum": the sum of the values that are present (skipna), 0 for none.
RECURSIVE SumSkipNa(_)
SumSkipNa(xs) ==
    IF xs = <<>> THEN 0
    ELSE (IF Head(xs).na THEN 0 ELSE Head(xs).v) + SumSkipNa(Tail(xs))

\* A variant that takes the first amount of the group only.
TotalSpentFirstOnly(xs) ==
    Num(IF xs = <<>> \/ Head(xs).na THEN 0 ELSE Head(xs).v)

TotalSpent(xs) == Num(SumSkipNa(xs))

\* aggfunc=lambda x: sum(x) * 0.01: Python's sum adds every value, so one
\* missing value (NaN) makes the result NaN.
CashbackOf(xs) ==
    IF \E i \in 1..Len(xs) : xs[i].na
    THEN NaN
    ELSE Num((SumSkipNa(xs) * CashbackPercent) \div 100)

\* A variant that slices from the front, str[:4].
LastDigitsFirstChars(card) ==
    SubSeq(card, 1, IF Len(card) < LastDigits THEN Len(card) ELSE LastDigits)

\* card.astype(str).str[-4:]
LastDigitsOf(card) ==
    SubSeq(card, (IF Len(card) > LastDigits THEN Len(card) - LastDigits ELSE 0) + 1, Len(card))

\* The frame card_info after reset_index and the last_digits column.
CardInfoFrame(table) ==
    LET keys == GroupKeys(table)
    IN  [j \in 1..Len(keys) |->
            [card |-> keys[j],
             total_spent |-> TotalSpent(GroupAmounts(table, keys[j])),
             cashback |-> CashbackOf(GroupAmounts(table, keys[j])),
             last_digits |-> LastDigitsOf(keys[j])]]

\* cards_data: one dict per row of card_info.
CardsData(frame) ==
    [j \in 1..Len(frame) |->
        [last_digits |-> frame[j].last_digits,
         total_spent |-> frame[j].total_spent,
         cashback |-> frame[j].cashback]]

\* A variant that looks for the card number column only.
CardColumnsMissingCardOnly(columns) == ColCard \notin columns

\* The check of the columns: "Nomer karty" not in transactions.columns or
\* "Summa operatsii" not in transactions.columns.
CardColumnsMissing(columns) == ColCard \notin columns \/ ColAmountOp \notin columns

\* The call calculate_card_info(table); the table passed in is only read.
CalculateCardInfoOf(columns, table) ==
    /\ op' = "cards"
    /\ args' = NoArgs
    /\ input' = table
    /\ IF CardColumnsMissing(columns)
         THEN /\ err' = "ValueError: missing columns"
              /\ card_info' = <<>>
              /\ result' = NoResult
         ELSE /\ err' = "none"
              /\ card_info' = CardInfoFrame(table)
              /\ result' = CardsData(CardInfoFrame(table))
    /\ top_frame' = <<>>

CalculateCardInfo ==
    /\ CalculateCardInfoOf(cols, data)
    /\ UNCHANGED <<cols, data, report_file, host>>

-----------------------------------------------------------------------------
(* get_top_5_transactions *)

\* The first n elements of a sequence (DataFrame.head(n)).
HeadOf(xs, n) == SubSeq(xs, 1, IF Len(xs) < n THEN Len(xs) ELSE n)

\* The positions of the rows whose payment is missing, in row order.
RECURSIVE InOrder(_)
InOrder(I) ==
    IF I = {} THEN <<>>
    ELSE LET m == CHOOSE x \in I : \A y \in I : x <= y
         IN  <<m>> \o InOrder(I \ {m})

\* The beginnings, of at most k positions, of the orders in which a sort by
\* payment puts the positions I: each next position is one of the remaining
\* positions with the largest (Largest) or smallest payment.  sort_values is
\* called without kind=, that is with "quicksort", which promises no order
\* among rows of equal payment: every order of the tied rows is an outcome.
RECURSIVE SortHeads(_, _, _, _)
SortHeads(table, I, k, Largest) ==
    IF k = 0 \/ I = {} THEN {<<>>}
    ELSE LET Next == {i \in I : \A j \in I :
                         IF Largest
                         THEN table[i].amount_pay.v >= table[j].amount_pay.v
                         ELSE table[i].amount_pay.v <= table[j].amount_pay.v}
         IN  UNION {{<<i>> \o h : h \in SortHeads(table, I \ {i}, k - 1, Largest)} : i \in Next}

SortedHeadsWith(table, Largest) ==
    LET present == {i \in 1..Len(table) : ~table[i].amount_pay.na}
        missing == InOrder((1..Len(table)) \ present)
    IN  {HeadOf(h \o missing, TopN) : h \in SortHeads(table, present, TopN, Largest)}

\* A variant with ascending=False left out.
SortedHeadsAscending(table) == SortedHeadsWith(table, FALSE)

\* A variant that puts the rows with a missing payment first
\* (na_position="first").
SortedHeadsMissingFirst(table) ==
    LET present == {i \in 1..Len(table) : ~table[i].amount_pay.na}
        missing == InOrder((1..Len(table)) \ present)
    IN  {HeadOf(missing \o h, TopN) : h \in SortHeads(table, present, TopN, TRUE)}

\* A variant that drops the selected rows whose timestamp did not parse.
SortedHeadsParsedOnly(table) ==
    LET Parsed(i) == ToDatetimeStrict(table[i].ts).kind = "datetime"
    IN  {SelectSeq(h, Parsed) : h \in SortedHeadsWith(table, TRUE)}

\* transactions.sort_values(by="Summa platezha", ascending=False).head(5), as
\* the row positions selected: payments descending, rows with a missing
\* payment last (na_position="last") in row order.
SortedHeads(table) == SortedHeadsWith(table, TRUE)

\* Series.dt.strftime("%d.%m.%Y") on one cell: the date as text without the
\* time of day; NaT gives a missing value.
StrftimeDmy(c) == IF c.kind = "datetime" THEN Cell("dmy", c.day, 0) ELSE NaT

\* The dicts returned: the four selected columns, renamed.
TopRecords(frame) ==
    [j \in 1..Len(frame) |->
        [date |-> StrftimeDmy(frame[j].ts),
         amount |-> frame[j].amount_pay,
         category |-> frame[j].category,
         description |-> frame[j].description]]

\* A variant that looks for the timestamp column only.
TopColumnsMissingDateOnly(columns) == ColDate \notin columns

\* The check of the columns: "Data operatsii" not in transactions.columns or
\* "Summa platezha" not in transactions.columns.
TopColumnsMissing(columns) == ColDate \notin columns \/ ColAmountPay \notin columns

\* A variant that selects the description only when the table has it.
SelectedColumnsMissingCategoryOnly(columns) == ColCategory \notin columns

\* top_5_transactions[[...]]: the selection of the four columns by name fails
\* when the frame lacks one of them.
SelectedColumnsMissing(columns) ==
    ColCategory \notin columns \/ ColDescription \notin columns

\* A variant that parses the timestamp column before it looks at the columns.
TableAfterTop5ParsedFirst(columns, table) ==
    IF ColDate \in columns THEN ParseColumnStrict(table) ELSE table

\* The table passed in, after the call: once the columns are there, its
\* timestamp column is parsed in place.
TableAfterTop5(columns, table) ==
    IF TopColumnsMissing(columns) THEN table ELSE ParseColumnStrict(table)

\* The call get_top_5_transactions(table), but for what it leaves of the
\* table passed in.
GetTop5TransactionsOf(columns, table) ==
    /\ op' = "top5"
    /\ args' = NoArgs
    /\ input' = table
    /\ card_info' = <<>>
    /\ IF TopColumnsMissing(columns)
         THEN /\ err' = "ValueError: missing columns"
              /\ result' = NoResult
              /\ top_frame' = <<>>
         ELSE /\ \E h \in SortedHeads(table) :
                     /\ top_frame' = [j \in 1..Len(h) |-> ParseColumnStrict(table)[h[j]]]
                     /\ IF SelectedColumnsMissing(columns)
                          THEN /\ err' = "KeyError"
                               /\ result' = NoResult
                          ELSE /\ err' = "none"
                               /\ result' = TopRecords(top_frame')

GetTop5Transactions ==
    /\ GetTop5TransactionsOf(cols, data)
    /\ data' = TableAfterTop5(cols, data)
    /\ UNCHANGED <<cols, report_file, host>>

-----------------------------------------------------------------------------
(* spending_by_category (rows variant) and category_expenses (sum variant) *)

\* An argument given for category that is not text (for instance 123).
NotAString == [na |-> TRUE, v |-> "123"]

\* The kinds of a date argument that are text: "YYYY-MM-DD HH:MM:SS", the
\* same with a field not zero-padded ("ymd_hms_loose"), "YYYY-MM-DD", text of the form YYYY-MM-DD that names no calendar day
\* ("no_day", such as 2023-06-31) and text of another form ("slash", such as
\* 2023/07/27 12:00:00).  The other kinds are "datetime" (a datetime object),
\* "other" (any other object) and "none" (no argument).
TextKinds == {"ymd_hms", "ymd_hms_loose", "ymd", "no_day", "slash"}

\* A variant without the second attempt, "%Y-%m-%d".
RowsDateOkNoFallback(date) == date.kind \in {"none", "ymd_hms", "ymd_hms_loose", "datetime"}

\* The date argument of spending_by_category: text is tried as
\* "%Y-%m-%d %H:%M:%S", then as "%Y-%m-%d"; a datetime is taken as it is.
RowsDateOk(date) == date.kind \in {"none", "ymd_hms", "ymd_hms_loose", "ymd", "datetime"}

\* A variant that reads the clock whether a date is given or not.
ReferenceDateAlwaysNow(date, now) == now

\* A variant that takes a date without a time of day as the end of that day.
ReferenceDateEndOfDay(date, now) ==
    CASE date.kind = "none" -> now
      [] date.kind \in {"ymd_hms", "ymd_hms_loose"} -> DateTime(date.day, date.sec)
      [] date.kind = "ymd" -> DateTime(date.day, SecondsPerDay - 1)
      [] OTHER -> date

\* The reference date: the argument parsed (a date without a time of day is
\* the midnight that starts it), or the clock reading when there is none.
ReferenceDate(date, now) ==
    CASE date.kind = "none" -> now
      [] date.kind \in {"ymd_hms", "ymd_hms_loose"} -> DateTime(date.day, date.sec)
      [] date.kind = "ymd" -> DateTime(date.day, 0)
      [] OTHER -> date

DateError(date) ==
    IF date.kind \in TextKinds
    THEN "ValueError: invalid date format"
    ELSE "ValueError: date must be a datetime"

\* pd.to_datetime(column, format="mixed", dayfirst=True) on one cell; errors=
\* is not given, so a text that is no date makes the whole call raise.
LenientOk(c) == c.kind # "junk"

ToDatetimeLenient(c) ==
    CASE c.kind = "dmy_hms" -> DateTime(c.day, c.sec)
      [] c.kind = "dmy" -> DateTime(c.day, 0)
      [] c.kind = "datetime" -> c
      [] OTHER -> NaT

ParseColumnLenient(table) ==
    [i \in 1..Len(table) |-> [table[i] EXCEPT !.ts = ToDatetimeLenient(@)]]

ColumnParses(table) == \A i \in 1..Len(table) : LenientOk(table[i].ts)

\* start_date = date - timedelta(days=90), as a position in seconds.
ReportStart(date) == Seconds(date) - ReportDays * SecondsPerDay

\* A variant with the start of the window excluded.
InReportRangeOpenStart(c, date) ==
    /\ c.kind = "datetime"
    /\ Seconds(c) > ReportStart(date)
    /\ Seconds(c) <= Seconds(date)

\* (column >= start_date) & (column <= date) on one cell.
InReportRange(c, date) ==
    /\ c.kind = "datetime"
    /\ Seconds(c) >= ReportStart(date)
    /\ Seconds(c) <= Seconds(date)

\* transactions[transactions["Kategoriya"] == category] on one cell.
CategoryIs(cell, category) == ~cell.na /\ cell.v = category.v

\* filtered_by_date: the rows of the parsed table with the category, inside
\* the window.
FilteredByDate(table, category, date) ==
    LET Keep(r) == CategoryIs(r.category, category) /\ InReportRange(r.ts, date)
    IN  SelectSeq(ParseColumnLenient(table), Keep)

\* A variant that parses the date before it checks the other arguments.
ArgumentErrorDateFirst(call, date_ok) ==
    IF ~date_ok THEN DateError(call.date)
    ELSE IF ~call.is_table THEN "ValueError: transactions must be a DataFrame"
    ELSE IF call.category.na THEN "ValueError: category must be a string"
    ELSE "none"

\* The checks of the arguments, in their order; "none" when all pass.
ArgumentError(call, date_ok) ==
    IF ~call.is_table THEN "ValueError: transactions must be a DataFrame"
    ELSE IF call.category.na THEN "ValueError: category must be a string"
    ELSE IF ~date_ok THEN DateError(call.date)
    ELSE "none"

\* The call through report_decorator: the function, then the rows returned
\* written to the report file.
SpendingByCategory(call, now) ==
    LET date == ReferenceDate(call.date, now)
        failed == ArgumentError(call, RowsDateOk(call.date))
    IN  /\ op' = "rows"
        /\ args' = [ref |-> call.date, category |-> call.category,
                    is_table |-> call.is_table,
                    now |-> IF failed = "none" /\ call.date.kind = "none"
                            THEN now ELSE Cell("none", 0, 0),
                    query |-> <<>>]
        /\ input' = data
        /\ card_info' = <<>>
        /\ top_frame' = <<>>
        /\ cols' = cols
        /\ UNCHANGED host
        /\ IF failed # "none"
             THEN /\ err' = failed
                  /\ UNCHANGED <<data, report_file>>
                  /\ result' = NoResult
             ELSE IF ColDate \notin cols
             THEN /\ err' = "KeyError"
                  /\ UNCHANGED <<data, report_file>>
                  /\ result' = NoResult
             ELSE IF ~ColumnParses(data)
             THEN /\ err' = "ValueError: unparseable timestamp"
                  /\ UNCHANGED <<data, report_file>>
                  /\ result' = NoResult
             ELSE \* the timestamp column of the caller's table is parsed in place
                  /\ data' = ParseColumnLenient(data)
                  /\ IF ColCategory \notin cols
                       THEN /\ err' = "KeyError"
                            /\ result' = NoResult
                            /\ UNCHANGED report_file
                       ELSE /\ err' = "none"
                            /\ result' = FilteredByDate(data, call.category, date)
                            /\ report_file' = result'

\* A variant that also takes text with a time of day.
SumDateOkWithTime(date) ==
    date.kind \in {"none", "ymd", "ymd_hms", "ymd_hms_loose", "datetime"}

\* The date argument of category_expenses: text only as "%Y-%m-%d".
SumDateOk(date) == date.kind \in {"none", "ymd", "datetime"}

\* The rows category_expenses sums: those with exactly the category whose
\* timestamp, parsed leniently, is at or after date - 90 days and at or before
\* date.
ExpensesRows(table, category, date) ==
    LET parsed == ParseColumnLenient(table)
        Keep(r) ==
            /\ ~r.category.na /\ r.category.v = category.v
            /\ r.ts.kind = "datetime"
            /\ Seconds(date) - Seconds(r.ts) >= 0
            /\ Seconds(date) - Seconds(r.ts) <= ReportDays * SecondsPerDay
    IN  SelectSeq(parsed, Keep)

RECURSIVE SumOfOperations(_)
SumOfOperations(rows) ==
    IF rows = <<>> THEN 0
    ELSE (IF Head(rows).amount_op.na THEN 0 ELSE Head(rows).amount_op.v)
             + SumOfOperations(Tail(rows))

\* category_expenses: the same checks and the same filter, the amounts of the
\* remaining rows summed (0.0 for none).  A timestamp value that cannot be
\* parsed is coerced to the missing marker and its row left out.
CategoryExpenses(call, now) ==
    LET date == ReferenceDate(call.date, now)
        failed == ArgumentError(call, SumDateOk(call.date))
    IN  /\ op' = "sum"
        /\ args' = [ref |-> call.date, category |-> call.category,
                    is_table |-> call.is_table,
                    now |-> IF failed = "none" /\ call.date.kind = "none"
                            THEN now ELSE Cell("none", 0, 0),
                    query |-> <<>>]
        /\ input' = data
        /\ card_info' = <<>>
        /\ top_frame' = <<>>
        /\ UNCHANGED <<cols, report_file, host>>
        /\ IF failed # "none"
             THEN /\ err' = failed
                  /\ data' = data
                  /\ result' = NoResult
             ELSE IF ColDate \notin cols
             THEN /\ err' = "KeyError"
                  /\ data' = data
                  /\ result' = NoResult
             ELSE \* a timestamp that is no date becomes the missing marker
                  /\ data' = ParseColumnLenient(data)
                  /\ IF ColCategory \notin cols \/ ColAmountOp \notin cols
                       THEN /\ err' = "KeyError"
                            /\ result' = NoResult
                       ELSE /\ err' = "none"
                            /\ result' = <<SumOfOperations(ExpensesRows(data, call.category, date))>>

-----------------------------------------------------------------------------
(* Transaction search *)

\* An entry of the sequence searched: a map with a description and a category
\* (each a sequence of code points, or absent), or something that is no map.
Entry(desc, cat) == [is_map |-> TRUE, description |-> desc, category |-> cat]
NotAMap == [is_map |-> FALSE, description |-> NoCard, category |-> NoCard]

\* The lower-case form of a code point: Latin A..Z and Cyrillic capitals.
LowerOf(c) ==
    IF (c >= 65 /\ c <= 90) \/ (c >= 1040 /\ c <= 1071) THEN c + 32 ELSE c

LowerText(s) == [i \in 1..Len(s) |-> LowerOf(s[i])]

\* A field of a map as text, empty text when the field is absent.
FieldText(cell) == IF cell.na THEN <<>> ELSE cell.v

\* q is a substring of s: s, or some tail of s, starts with q.
RECURSIVE IsSubstring(_, _)
IsSubstring(q, s) ==
    IF Len(q) > Len(s) THEN FALSE
    ELSE IF SubSeq(s, 1, Len(q)) = q THEN TRUE
    ELSE IsSubstring(q, Tail(s))

\* A variant that compares the text as written, capitals apart from small
\* letters.
MatchesAsWritten(entry, query) ==
    /\ entry.is_map
    /\ \/ IsSubstring(query, FieldText(entry.description))
       \/ IsSubstring(query, FieldText(entry.category))

\* An entry matches when it is a map and the query, letter case apart, is a
\* substring of its description or of its category.
Matches(entry, query) ==
    /\ entry.is_map
    /\ \/ IsSubstring(LowerText(query), LowerText(FieldText(entry.description)))
       \/ IsSubstring(LowerText(query), LowerText(FieldText(entry.category)))

\* The matching records in the order of the input (the JSON array returned,
\* taken as the sequence of its records).
SearchResults(records, query) ==
    LET Hit(entry) == Matches(entry, query)
    IN  SelectSeq(records, Hit)

TransactionSearch(query) ==
    /\ op' = "search"
    /\ args' = [NoArgs EXCEPT !.query = query]
    /\ input' = data
    /\ err' = "none"
    /\ result' = SearchResults(data, query)
    /\ card_info' = <<>>
    /\ top_frame' = <<>>
    /\ UNCHANGED <<cols, data, report_file, host>>

-----------------------------------------------------------------------------
(* Tables the operations are run on *)

DefaultRow(i) == Row(i, NaT, NaN, NaN, NoText, NoText, NoCard)

\* A loaded table of at most n rows drawn from Rows: index labels 0..k-1 in
\* row order (pd.read_excel gives a RangeIndex).
Loaded(table, n, Rows) ==
    \E k \in 0..n : \E f \in [1..k -> Rows] :
        table = [i \in 1..k |-> [f[i] EXCEPT !.idx = i - 1]]

RefDay == 100
Noon == 43200

FilterCells ==
    {Cell("dmy_hms", RefDay - 1, Noon - 1), Cell("dmy_hms", RefDay - 1, Noon),
     Cell("dmy_hms", RefDay, Noon), Cell("dmy_hms", RefDay, Noon + 1),
     Cell("dmy", RefDay, 0), Cell("junk", 0, 0),
     DateTime(RefDay, 0), NaT}

FilterRows == {[DefaultRow(0) EXCEPT !.ts = c] : c \in FilterCells}

FilterRefs ==
    {Cell("ymd_hms", RefDay, Noon), Cell("ymd_hms", RefDay, 0),
     Cell("ymd_hms_loose", RefDay, Noon),
     Cell("ymd", RefDay, 0), Cell("slash", RefDay, Noon)}

InitCommon ==
    /\ op = "none"
    /\ args = NoArgs
    /\ input = <<>>
    /\ err = "none"
    /\ result = NoResult
    /\ card_info = <<>>
    /\ top_frame = <<>>
    /\ report_file = <<>>

\* The table is what the file holds; main has not run.
InitLoaded ==
    /\ operations_file = data
    /\ transactions = <<>>
    /\ pc = {}

InitFilter ==
    /\ InitCommon
    /\ \/ /\ cols = AllColumns
          /\ Loaded(data, MaxFilterRows, FilterRows)
       \/ /\ cols = AllColumns \ {ColDate}
          /\ Loaded(data, MaxFilterRows, {DefaultRow(0)})
    /\ InitLoaded

NextFilter == \E ref \in FilterRefs : FilterTransactionsByDate(ref)

SpecFilter == InitFilter /\ [][NextFilter]_vars


\* Card numbers as text: "*7197", "*4556", "12" and "7197".
CardNumbers ==
    {<<42, 55, 49, 57, 55>>, <<42, 52, 53, 53, 54>>, <<49, 50>>, <<55, 49, 57, 55>>}

CardCells == {Card(c) : c \in CardNumbers} \cup {NoCard}
AmountCells == {Num(10000), Num(-5000), NaN}

CardRows ==
    {[DefaultRow(0) EXCEPT !.card = c, !.amount_op = a] : c \in CardCells, a \in AmountCells}

InitCards ==
    /\ InitCommon
    /\ \/ /\ cols = AllColumns
          /\ Loaded(data, MaxCardRows, CardRows)
       \/ /\ cols \in {AllColumns \ {ColCard}, AllColumns \ {ColAmountOp},
                       AllColumns \ {ColCard, ColAmountOp}, {ColCard}}
          /\ Loaded(data, MaxCardRows, {DefaultRow(0)})
    /\ InitLoaded

NextCards == CalculateCardInfo

SpecCards == InitCards /\ [][NextCards]_vars

\* Rows for the ranking: a payment of 100.00 with a timestamp that is no
\* date, a payment of 200.00, and a row without a payment.
TopRows ==
    {[DefaultRow(0) EXCEPT !.amount_pay = Num(10000), !.ts = Cell("junk", 0, 0),
                           !.category = Txt("Taxi")],
     [DefaultRow(0) EXCEPT !.amount_pay = Num(20000), !.ts = Cell("dmy_hms", RefDay, Noon),
                           !.category = Txt("Food")],
     [DefaultRow(0) EXCEPT !.amount_pay = NaN, !.ts = Cell("dmy_hms", RefDay - 1, Noon),
                           !.category = NoText]}

\* Every row of a ranked table has a description of its own.
DescriptionNames ==
    <<"Ride", "Dinner", "Lunch", "Books", "Cinema", "Fuel", "Flowers", "Tickets", "Coffee">>

Described(table) ==
    [i \in 1..Len(table) |-> [table[i] EXCEPT !.description = Txt(DescriptionNames[i])]]

InitTop ==
    /\ InitCommon
    /\ \/ /\ cols = AllColumns
          /\ \E k \in 0..MaxTopRows : \E f \in [1..k -> TopRows] :
                 data = Described([i \in 1..k |-> [f[i] EXCEPT !.idx = i - 1]])
       \/ /\ cols \in {AllColumns \ {ColCategory}, AllColumns \ {ColDescription},
                       AllColumns \ {ColDate}, AllColumns \ {ColAmountPay},
                       {ColDate, ColCategory, ColDescription}}
          /\ Loaded(data, MaxTopRows, {DefaultRow(0)})
    /\ InitLoaded

\* The caller ranks the loaded table once.
NextTop == op = "none" /\ GetTop5Transactions

SpecTop == InitTop /\ [][NextTop]_vars

\* Rows for the category report, around the window of a reference date on
\* day RefDay: exactly 90 days before, 91 days before, on the reference day
\* at noon, a date without a time of day, another
\* spelling of the category, no date, no timestamp, no amount, no category.
ReportRows ==
    {[DefaultRow(0) EXCEPT !.ts = Cell("dmy_hms", RefDay - ReportDays, 0),
                           !.category = Txt("Food"), !.amount_op = Num(10000)],
     [DefaultRow(0) EXCEPT !.ts = Cell("dmy_hms", RefDay - ReportDays - 1, 0),
                           !.category = Txt("Food"), !.amount_op = Num(20000)],
     [DefaultRow(0) EXCEPT !.ts = Cell("dmy_hms", RefDay, Noon),
                           !.category = Txt("Food"), !.amount_op = Num(30000)],
     [DefaultRow(0) EXCEPT !.ts = Cell("dmy", RefDay - 1, 0),
                           !.category = Txt("Food"), !.amount_op = Num(7000)],
     [DefaultRow(0) EXCEPT !.ts = Cell("dmy_hms", RefDay - 1, Noon),
                           !.category = Txt("food"), !.amount_op = Num(1000)],
     [DefaultRow(0) EXCEPT !.ts = Cell("junk", 0, 0),
                           !.category = Txt("Food"), !.amount_op = Num(600)],
     [DefaultRow(0) EXCEPT !.ts = NaT,
                           !.category = Txt("Food"), !.amount_op = Num(4000)],
     [DefaultRow(0) EXCEPT !.ts = Cell("dmy_hms", RefDay - 2, Noon),
                           !.category = Txt("Food"), !.amount_op = NaN],
     [DefaultRow(0) EXCEPT !.ts = Cell("dmy_hms", RefDay - 3, Noon),
                           !.category = NoText, !.amount_op = Num(300)]}

ReportCall(t, c, d) == [is_table |-> t, category |-> c, date |-> d]

ReportCalls ==
    {ReportCall(TRUE, Txt("Food"), Cell("ymd", RefDay, 0)),
     ReportCall(TRUE, Txt("Food"), Cell("ymd_hms", RefDay, Noon)),
     ReportCall(TRUE, Txt("Food"), Cell("ymd_hms_loose", RefDay, Noon)),
     ReportCall(TRUE, Txt("Food"), Cell("none", 0, 0)),
     ReportCall(TRUE, Txt("Food"), Cell("slash", RefDay, 0)),
     ReportCall(TRUE, Txt("Food"), Cell("no_day", RefDay, 0)),
     ReportCall(TRUE, Txt("Food"), DateTime(RefDay, Noon)),
     ReportCall(TRUE, Txt("Food"), DateTime(RefDay - 1, Noon)),
     ReportCall(TRUE, Txt("Food"), Cell("other", 0, 0)),
     ReportCall(TRUE, Txt("food"), Cell("ymd", RefDay, 0)),
     ReportCall(FALSE, NotAString, Cell("ymd", RefDay, 0)),
     ReportCall(FALSE, Txt("Food"), Cell("slash", RefDay, 0)),
     ReportCall(TRUE, NotAString, Cell("slash", RefDay, 0))}

\* What datetime.today() may return.
ClockReadings == {DateTime(RefDay, Noon), DateTime(RefDay - 1, Noon)}

InitReport ==
    /\ InitCommon
    /\ \/ /\ cols = AllColumns
          /\ Loaded(data, MaxReportRows, ReportRows)
       \/ /\ cols \in {AllColumns \ {ColDate}, AllColumns \ {ColCategory},
                       AllColumns \ {ColAmountOp}}
          /\ Loaded(data, MaxReportRows, {DefaultRow(0)})
    /\ InitLoaded

NextReport ==
    \E call \in ReportCalls : \E now \in ClockReadings :
        \/ SpendingByCategory(call, now)
        \/ CategoryExpenses(call, now)

SpecReport == InitReport /\ [][NextReport]_vars

\* Texts of the records searched: "v kino" and "KINO", "kin", "Eda" in
\* Cyrillic letters (the capitals K I N O are 1050 1048 1053 1054, the small
\* letters 32 higher).
SearchTexts ==
    [in_cinema |-> <<1074, 32, 1082, 1080, 1085, 1086>>,
     cinema_caps |-> <<1050, 1048, 1053, 1054>>,
     cinema_small |-> <<1082, 1080, 1085, 1086>>,
     cin |-> <<1082, 1080, 1085>>,
     food |-> <<1045, 1076, 1072>>,
     food_small |-> <<1077, 1076, 1072>>]

SearchEntries ==
    {Entry(Card(SearchTexts.in_cinema), NoCard),
     Entry(NoCard, Card(SearchTexts.cinema_caps)),
     Entry(Card(SearchTexts.cin), Card(SearchTexts.food)),
     Entry(NoCard, NoCard),
     NotAMap}

SearchQueries ==
    {SearchTexts.cinema_caps, SearchTexts.cinema_small, SearchTexts.food_small, <<>>}

InitSearch ==
    /\ InitCommon
    /\ cols = {}
    /\ \E k \in 0..MaxSearchRecords : data \in [1..k -> SearchEntries]
    /\ InitLoaded

NextSearch == \E query \in SearchQueries : TransactionSearch(query)

SpecSearch == InitSearch /\ [][NextSearch]_vars

-----------------------------------------------------------------------------
(* The filter applied to the table it returned *)

\* filter_transactions_by_date(filtered, ref) with the table and the reference
\* of a call that returned.
FilterAgain ==
    /\ op = "filter" /\ err = "none"
    /\ FilterTransactionsByDateOf(cols, result, args.ref)
    /\ pc' = {"refilter"}
    /\ UNCHANGED <<cols, data, report_file, operations_file, transactions>>

InitRefilter ==
    /\ InitCommon
    /\ cols = AllColumns
    /\ Loaded(data, MaxRefilterRows, FilterRows)
    /\ InitLoaded

NextRefilter ==
    \/ pc = {} /\ NextFilter
    \/ FilterAgain

SpecRefilter == InitRefilter /\ [][NextRefilter]_vars

-----------------------------------------------------------------------------
(* main: load, filter, card summaries and ranking of the filtered table *)

\* date_time_str = "2020-04-27 19:30:30", a text of the filter's format.
MainDate == Cell("ymd_hms", RefDay, Noon)

\* transactions = filter_transactions_by_date(all_transactions, date_time_str)
MainFilter ==
    /\ pc = {}
    /\ FilterTransactionsByDateOf(cols, data, MainDate)
    /\ data' = TableAfterFilter(cols, data, MainDate)
    /\ transactions' = result'
    /\ pc' = {"filter"}
    /\ UNCHANGED <<cols, report_file, operations_file>>

\* card_info = calculate_card_info(transactions)
MainCardInfo ==
    /\ "filter" \in pc /\ "cards" \notin pc
    /\ CalculateCardInfoOf(cols, transactions)
    /\ pc' = pc \cup {"cards"}
    /\ UNCHANGED <<cols, data, report_file, operations_file, transactions>>

\* top_transactions = get_top_5_transactions(transactions)
MainTop5 ==
    /\ "filter" \in pc /\ "top5" \notin pc
    /\ GetTop5TransactionsOf(cols, transactions)
    /\ transactions' = TableAfterTop5(cols, transactions)
    /\ pc' = pc \cup {"top5"}
    /\ UNCHANGED <<cols, data, report_file, operations_file>>

\* Rows of the operations file: two cards, inside and outside the window of
\* MainDate, a timestamp that is no date, a row without amounts.
MainRows ==
    {[DefaultRow(0) EXCEPT !.ts = Cell("dmy_hms", RefDay, Noon),
                           !.card = Card(<<42, 55, 49, 57, 55>>),
                           !.amount_op = Num(-10000), !.amount_pay = Num(-10000),
                           !.category = Txt("Food"), !.description = Txt("d0")],
     [DefaultRow(0) EXCEPT !.ts = Cell("dmy_hms", RefDay - 1, Noon),
                           !.card = Card(<<42, 52, 53, 53, 54>>),
                           !.amount_op = Num(-5000), !.amount_pay = Num(-20000),
                           !.category = Txt("Taxi"), !.description = Txt("d1")],
     [DefaultRow(0) EXCEPT !.ts = Cell("dmy_hms", RefDay, Noon + 1),
                           !.card = Card(<<42, 55, 49, 57, 55>>),
                           !.amount_op = Num(-30000), !.amount_pay = Num(-30000),
                           !.category = Txt("Food"), !.description = Txt("d2")],
     [DefaultRow(0) EXCEPT !.ts = Cell("junk", 0, 0),
                           !.card = Card(<<42, 52, 53, 53, 54>>),
                           !.amount_op = Num(-7000), !.amount_pay = Num(-7000),
                           !.category = Txt("Taxi"), !.description = Txt("d3")],
     [DefaultRow(0) EXCEPT !.ts = Cell("dmy_hms", RefDay, 0),
                           !.card = Card(<<42, 55, 49, 57, 55>>),
                           !.category = Txt("Food"), !.description = Txt("d4")]}

InitMain ==
    /\ InitCommon
    /\ cols = AllColumns
    /\ Loaded(data, MaxMainRows, MainRows)
    /\ InitLoaded

\* main calls calculate_card_info before get_top_5_transactions; the other
\* order is taken too, to compare the two.
NextMain == MainFilter \/ MainCardInfo \/ MainTop5

SpecMain == InitMain /\ [][NextMain]_vars

-----------------------------------------------------------------------------
(* One table passed to get_top_5_transactions and to spending_by_category, *)
(* in any order and any number of times, without a copy in between         *)

\* Rows of one category with payments that differ: a timestamp at noon, one
\* at midnight, one without a time of day, and one that is no date.
SharedRows ==
    {[DefaultRow(0) EXCEPT !.ts = Cell("dmy_hms", RefDay, Noon),
                           !.category = Txt("Food"), !.description = Txt("d0"),
                           !.amount_op = Num(10000), !.amount_pay = Num(10000)],
     [DefaultRow(0) EXCEPT !.ts = Cell("dmy_hms", RefDay, 0),
                           !.category = Txt("Food"), !.description = Txt("d3"),
                           !.amount_op = Num(40000), !.amount_pay = Num(40000)],
     [DefaultRow(0) EXCEPT !.ts = Cell("dmy", RefDay - 1, 0),
                           !.category = Txt("Food"), !.description = Txt("d1"),
                           !.amount_op = Num(20000), !.amount_pay = Num(20000)],
     [DefaultRow(0) EXCEPT !.ts = Cell("junk", 0, 0),
                           !.category = Txt("Food"), !.description = Txt("d2"),
                           !.amount_op = Num(30000), !.amount_pay = Num(30000)]}

SharedCalls ==
    {ReportCall(TRUE, Txt("Food"), Cell("ymd_hms", RefDay, Noon)),
     ReportCall(TRUE, Txt("Food"), Cell("ymd", RefDay, 0)),
     ReportCall(TRUE, Txt("Food"), Cell("none", 0, 0)),
     ReportCall(FALSE, Txt("Food"), Cell("ymd", RefDay, 0)),
     ReportCall(TRUE, NotAString, Cell("ymd", RefDay, 0)),
     ReportCall(TRUE, Txt("Food"), Cell("slash", RefDay, 0))}

InitShared ==
    /\ InitCommon
    /\ cols \in {AllColumns, AllColumns \ {ColAmountPay}}
    /\ Loaded(data, MaxSharedRows, SharedRows)
    /\ InitLoaded

NextShared ==
    \/ GetTop5Transactions
    \/ \E call \in SharedCalls : SpendingByCategory(call, DateTime(RefDay, Noon))

SpecShared == InitShared /\ [][NextShared]_vars

-----------------------------------------------------------------------------
(* The whole program: any of the tables above, the operations in any order *)

Init ==
    \/ InitFilter \/ InitCards \/ InitTop \/ InitReport \/ InitSearch
    \/ InitMain \/ InitShared \/ InitRefilter

Next ==
    \/ (cols # {} /\ (NextFilter \/ NextCards \/ NextTop \/ NextReport))
    \/ (cols # {} /\ (NextMain \/ NextShared \/ NextRefilter))
    \/ (cols = {} /\ NextSearch)

Spec == Init /\ [][Next]_vars

-----------------------------------------------------------------------------
(* Claims about filter_transactions_by_date *)

\* The operation timestamp of a row, when it has one under the format
\* DD.MM.YYYY HH:MM:SS (or is a date-time value already).
HasTimestamp(r) == r.ts.kind \in {"dmy_hms", "datetime"}
TimestampOf(r) == r.ts.day * SecondsPerDay + r.ts.sec

RowAt(table, label) == CHOOSE r \in {table[i] : i \in 1..Len(table)} : r.idx = label
Labels(table) == {table[i].idx : i \in 1..Len(table)}

\* C1: filter_transactions_by_date(D, ref) returns exactly the rows of D whose
\* operation timestamp t satisfies ref - 1 day <= t <= ref, both ends
\* inclusive, in their order and otherwise unchanged.
C1_FilterWindowInclusive ==
    (op = "filter" /\ err = "none") =>
        LET ref == args.ref.day * SecondsPerDay + args.ref.sec
            Wanted == {r.idx : r \in {x \in {input[i] : i \in 1..Len(input)} :
                          /\ HasTimestamp(x)
                          /\ ref - SecondsPerDay <= TimestampOf(x)
                          /\ TimestampOf(x) <= ref}}
        IN  /\ Labels(result) = Wanted
            /\ Len(result) = Cardinality(Wanted)
            /\ \A j \in 1..Len(result) :
                   LET r == RowAt(input, result[j].idx)
                   IN  /\ result[j] = [r EXCEPT !.ts = DateTime(r.ts.day, r.ts.sec)]
                       /\ \A k \in 1..Len(result) : j < k => result[j].idx < result[k].idx

\* A call whose table holds a row at ref - 1 day - 1 s, at ref - 1 day, at ref
\* and at ref + 1 s: the second and third are returned, the others are not.
C1_Witness ==
    /\ op = "filter" /\ err = "none"
    /\ args.ref = Cell("ymd_hms", RefDay, Noon)
    /\ Len(input) = 4
    /\ input[1].ts = Cell("dmy_hms", RefDay - 1, Noon - 1)
    /\ input[2].ts = Cell("dmy_hms", RefDay - 1, Noon)
    /\ input[3].ts = Cell("dmy_hms", RefDay, Noon)
    /\ input[4].ts = Cell("dmy_hms", RefDay, Noon + 1)
    /\ Labels(result) = {1, 2}


-----------------------------------------------------------------------------
(* Claims about calculate_card_info *)

CardsReturned == op = "cards" /\ err = "none"

\* The positions of the rows of the input that carry card number c.
RowsOfCard(c) == {i \in 1..Len(input) : ~input[i].card.na /\ input[i].card.v = c}
CardsPresent == {input[i].card.v : i \in {j \in 1..Len(input) : ~input[j].card.na}}

\* The sum of amount_of_operation over a set of row positions, a missing
\* amount adding nothing.
RECURSIVE AmountOver(_)
AmountOver(I) ==
    IF I = {} THEN 0
    ELSE LET i == CHOOSE x \in I : TRUE
         IN  (IF input[i].amount_op.na THEN 0 ELSE input[i].amount_op.v) + AmountOver(I \ {i})

RECURSIVE TotalOfRecords(_)
TotalOfRecords(recs) ==
    IF recs = <<>> THEN 0 ELSE Head(recs).total_spent.v + TotalOfRecords(Tail(recs))

\* C2: calculate_card_info returns exactly one record per distinct card number
\* present in the dataset, whose total_spent is the sum of amount_of_operation
\* over the rows with that exact card number; a dataset with no rows gives the
\* empty list.
C2_OneRecordPerCard ==
    CardsReturned =>
        /\ Len(result) = Cardinality(CardsPresent)
        /\ Len(card_info) = Len(result)
        /\ \A c \in CardsPresent :
               \E j \in 1..Len(result) :
                   /\ card_info[j].card = c
                   /\ \A k \in 1..Len(result) : card_info[k].card = c => k = j
                   /\ ~result[j].total_spent.na
                   /\ result[j].total_spent.v = AmountOver(RowsOfCard(c))
        /\ (input = <<>> => result = <<>>)

\* Two cards, one of them on two rows with amounts, both summarised.
C2_Witness ==
    /\ CardsReturned
    /\ Len(input) = 3
    /\ input[1].card = input[3].card /\ input[1].card # input[2].card
    /\ \A i \in 1..3 : ~input[i].card.na /\ ~input[i].amount_op.na
    /\ input[1].amount_op # input[3].amount_op
    /\ Len(result) = 2

\* C3 as stated: over every dataset with both columns, the totals of the
\* records add up to the sum of amount_of_operation over every row.
C3_SumOverEveryRow ==
    CardsReturned => TotalOfRecords(result) = AmountOver(1..Len(input))

\* C3, amended: the totals of the records add up to the sum of
\* amount_of_operation over the rows that have a card number; a row whose
\* card number is missing is in no group and its amount in no total.
C3_SumOverRowsWithCard ==
    CardsReturned =>
        TotalOfRecords(result)
            = AmountOver({i \in 1..Len(input) : ~input[i].card.na})

\* A dataset with two cards and a row without a card number that has an amount.
C3_Witness ==
    /\ CardsReturned
    /\ Len(input) = 3
    /\ input[2].card.na /\ ~input[2].amount_op.na
    /\ ~input[1].card.na /\ ~input[3].card.na /\ input[1].card # input[3].card
    /\ ~input[1].amount_op.na /\ ~input[3].amount_op.na
    /\ Len(result) = 2

\* The position of the first row of the input with card number c.
FirstRowOf(c) == CHOOSE i \in RowsOfCard(c) : \A k \in RowsOfCard(c) : i <= k

C5_CashbackIsOnePercent ==
    CardsReturned =>
        \A j \in 1..Len(result) :
            /\ ~result[j].cashback.na
            /\ result[j].cashback.v * 100 = result[j].total_spent.v * CashbackPercent

\* C6: last_digits is the final 4 characters of the card number as text, or
\* the whole text when it is shorter than 4 characters; no card number is
\* rejected.
C6_LastDigits ==
    CardsReturned =>
        \A j \in 1..Len(result) :
            LET card == card_info[j].card
                ld == result[j].last_digits
            IN  /\ \E prefix \in {SubSeq(card, 1, n) : n \in 0..Len(card)} : card = prefix \o ld
                /\ IF Len(card) < 4 THEN ld = card ELSE Len(ld) = 4

\* A card number of 2 characters and one of 5 that starts with "*".
C6_Witness ==
    /\ CardsReturned
    /\ \E j, k \in 1..Len(result) :
           /\ card_info[j].card = <<49, 50>> /\ result[j].last_digits = <<49, 50>>
           /\ card_info[k].card = <<42, 55, 49, 57, 55>>
           /\ result[k].last_digits = <<55, 49, 57, 55>>


-----------------------------------------------------------------------------
(* Claims about get_top_5_transactions *)

TopReturned == op = "top5" /\ err = "none"

\* a is not below b in the ranking: a missing amount is below every amount.
NotBelow(a, b) == b.na \/ (~a.na /\ a.v >= b.v)

\* C7: get_top_5_transactions returns min(5, number of input rows) records
\* whose amounts are in non-increasing order.
C7_TopFiveDescending ==
    TopReturned =>
        /\ Len(result) = (IF Len(input) < 5 THEN Len(input) ELSE 5)
        /\ \A j, k \in 1..Len(result) : j < k => NotBelow(result[j].amount, result[k].amount)

\* Six rows, the smaller payment first: five records, the larger payment first.
C7_Witness ==
    /\ TopReturned
    /\ Len(input) = 6 /\ Len(result) = 5
    /\ input[1].amount_pay = Num(10000) /\ input[2].amount_pay = Num(20000)
    /\ input[6].amount_pay = Num(20000)
    /\ result[1].amount = Num(20000) /\ result[5].amount = Num(10000)

\* The position in the input of the row a returned record was made from (the
\* descriptions of the input rows differ from one another).
InputPosition(rec) == CHOOSE i \in 1..Len(input) : input[i].description = rec.description

\* C8: ties are broken stably: records of equal amount are in the order of
\* their rows in the input, and of the rows tied at the cut the earlier ones
\* are kept.
C8_StableTies ==
    TopReturned =>
        /\ \A j, k \in 1..Len(result) :
               (j < k /\ result[j].amount = result[k].amount)
                   => InputPosition(result[j]) < InputPosition(result[k])
        /\ \A j \in 1..Len(result) : \A i \in 1..Len(input) :
               (/\ input[i].amount_pay = result[j].amount
                /\ \A k \in 1..Len(result) : InputPosition(result[k]) # i)
                   => InputPosition(result[j]) < i


-----------------------------------------------------------------------------
(* Claims about the category report *)

RowsReturned == op = "rows" /\ err = "none"

\* The reference point of the last call, in seconds: the date given (a date
\* without a time of day counting from its midnight), or the clock reading.
ReferencePoint ==
    IF args.ref.kind = "none"
    THEN args.now.day * SecondsPerDay + args.now.sec
    ELSE args.ref.day * SecondsPerDay + (IF args.ref.kind = "ymd" THEN 0 ELSE args.ref.sec)

\* The operation timestamp of a row under the lenient day-first parse.
HasLenientTimestamp(r) == r.ts.kind \in {"dmy_hms", "dmy", "datetime"}
LenientTimestampOf(r) ==
    r.ts.day * SecondsPerDay + (IF r.ts.kind = "dmy" THEN 0 ELSE r.ts.sec)

\* C9: spending_by_category(D, c, ref) returns exactly the rows of D whose
\* category equals c exactly and whose operation timestamp t satisfies
\* ref - 90 days <= t <= ref, both ends inclusive.
C9_CategoryWindowInclusive ==
    RowsReturned =>
        LET Wanted == {r.idx : r \in {x \in {input[i] : i \in 1..Len(input)} :
                          /\ ~x.category.na /\ x.category.v = args.category.v
                          /\ HasLenientTimestamp(x)
                          /\ ReferencePoint - 90 * SecondsPerDay <= LenientTimestampOf(x)
                          /\ LenientTimestampOf(x) <= ReferencePoint}}
        IN  /\ Labels(result) = Wanted
            /\ Len(result) = Cardinality(Wanted)
            /\ \A j \in 1..Len(result) :
                   LET r == RowAt(input, result[j].idx)
                   IN  /\ result[j].category = r.category
                       /\ result[j].amount_op = r.amount_op
                       /\ Seconds(result[j].ts) = LenientTimestampOf(r)
                       /\ \A k \in 1..Len(result) : j < k => result[j].idx < result[k].idx

\* A row dated exactly 90 days before the reference date and a row dated 91
\* days before it, both of the category: the first is returned, the second not.
C9_Witness ==
    /\ RowsReturned
    /\ args.ref = Cell("ymd", RefDay, 0) /\ args.category = Txt("Food")
    /\ Len(input) = 2
    /\ input[1].ts = Cell("dmy_hms", RefDay - 90, 0) /\ input[1].category = Txt("Food")
    /\ input[2].ts = Cell("dmy_hms", RefDay - 91, 0) /\ input[2].category = Txt("Food")
    /\ Labels(result) = {0}

SameArguments(a, b) ==
    /\ a.ref = b.ref /\ a.category = b.category /\ a.is_table = b.is_table
    /\ a.now = b.now

\* C10: when the rows variant and the sum variant are called one after the
\* other on the same dataset with the same category and date, the amounts of
\* the rows returned add up to the number returned.
C10_RowsSumAgree ==
    [][/\ (/\ op = "rows" /\ err = "none" /\ op' = "sum" /\ err' = "none"
           /\ SameArguments(args, args'))
              => result'[1] = SumOfOperations(result)
       /\ (/\ op = "sum" /\ err = "none" /\ op' = "rows" /\ err' = "none"
           /\ SameArguments(args, args'))
              => SumOfOperations(result') = result[1]]_vars

\* The sum variant has returned a sum that is not 0 for the arguments for which
\* the rows variant wrote its rows to the report file.
C10_Witness ==
    /\ op = "sum" /\ err = "none"
    /\ report_file # <<>>
    /\ \A j \in 1..Len(report_file) : report_file[j].category = args.category
    /\ result[1] = SumOfOperations(report_file)
    /\ result[1] # 0
    /\ \E i \in 1..Len(input) : input[i].category = Txt("food")

\* The rows of the input that the category report is about: those with exactly
\* the category asked for whose timestamp lies in the 90 days up to the
\* reference point.
MatchingRows ==
    {i \in 1..Len(input) :
        /\ ~input[i].category.na /\ input[i].category.v = args.category.v
        /\ HasLenientTimestamp(input[i])
        /\ ReferencePoint - 90 * SecondsPerDay <= LenientTimestampOf(input[i])
        /\ LenientTimestampOf(input[i]) <= ReferencePoint}

\* A call of category_expenses with a table that has the three columns, a
\* text category and a date it takes (none, YYYY-MM-DD text or a date-time).
SumCallTaken ==
    /\ op = "sum"
    /\ args.is_table /\ ~args.category.na
    /\ args.ref.kind \in {"none", "ymd", "datetime"}
    /\ {ColDate, ColCategory, ColAmountOp} \subseteq cols

\* C11: category_expenses returns 0.0, and does not fail, when the dataset has
\* no rows or no row of the requested category lies inside the 90-day window.
C11_EmptySumIsZero ==
    (SumCallTaken /\ MatchingRows = {}) => (err = "none" /\ result = <<0>>)

\* A call on a table with no rows, and a call on a table whose rows are of the
\* category but outside the window or of another category.
C11_WitnessNoRows == SumCallTaken /\ input = <<>> /\ result = <<0>>

C11_Witness ==
    /\ SumCallTaken /\ MatchingRows = {}
    /\ Len(input) = 2
    /\ input[1].category = Txt("Food") /\ input[1].ts = Cell("dmy_hms", RefDay - 91, 0)
    /\ input[2].category = Txt("food") /\ input[2].ts = Cell("dmy_hms", RefDay - 1, Noon)
    /\ args.category = Txt("Food")
    /\ result = <<0>>

\* A call of spending_by_category that passed the checks of the dataset and
\* of the category.
RowsCallChecked == op = "rows" /\ args.is_table /\ ~args.category.na

InvalidDateFormat == "ValueError: invalid date format"

\* C12: spending_by_category takes a text date of the form YYYY-MM-DD HH:MM:SS
\* and otherwise of the form YYYY-MM-DD, and fails with the invalid-date-format
\* error only when the text has neither form; a date that is neither text nor
\* a date-time value is rejected as well.
C12_RowsDateFormats ==
    RowsCallChecked =>
        /\ args.ref.kind \in {"ymd_hms", "ymd_hms_loose", "ymd", "datetime", "none"}
               => err \notin {InvalidDateFormat, "ValueError: date must be a datetime"}
        /\ args.ref.kind \in {"no_day", "slash"} => (err = InvalidDateFormat /\ result = NoResult)
        /\ args.ref.kind = "other"
               => (err = "ValueError: date must be a datetime" /\ result = NoResult)
        /\ err = InvalidDateFormat => args.ref.kind \in {"no_day", "slash"}

\* A date without a time of day has been taken and rows were returned.
C12_Witness ==
    /\ RowsCallChecked /\ err = "none"
    /\ args.ref = Cell("ymd", RefDay, 0)
    /\ Len(result) = 2

\* A call of category_expenses that passed the checks of the dataset and of
\* the category.
SumCallChecked == op = "sum" /\ args.is_table /\ ~args.category.na

\* C13: category_expenses takes a text date only of the form YYYY-MM-DD and
\* fails with the invalid-date-format error for any other text, a
\* YYYY-MM-DD HH:MM:SS text and a date that names no calendar day included.
C13_SumDateFormat ==
    SumCallChecked =>
        /\ args.ref.kind = "ymd" => err # InvalidDateFormat
        /\ args.ref.kind \in {"ymd_hms", "ymd_hms_loose", "no_day", "slash"}
               => (err = InvalidDateFormat /\ result = NoResult)

\* The sum variant has rejected a date with a time of day.
C13_Witness ==
    /\ SumCallChecked
    /\ args.ref = Cell("ymd_hms", RefDay, Noon)
    /\ err = InvalidDateFormat
    /\ input # <<>>

-----------------------------------------------------------------------------
(* Claims about the failures of filter_transactions_by_date *)

InvalidTimestampFormat == "ValueError: invalid date-time format"

\* C14 as stated: filter_transactions_by_date fails with the
\* invalid-timestamp-format error, and returns no dataset, for every reference
\* string that is not exactly of the form YYYY-MM-DD HH:MM:SS.
C14_ExactFormatOnly ==
    (op = "filter" /\ args.ref.kind # "ymd_hms")
        => (err = InvalidTimestampFormat /\ result = NoResult)

\* C14, amended: the call fails with the invalid-timestamp-format error, and
\* returns no dataset, exactly for the reference strings that strptime does
\* not take under %Y-%m-%d %H:%M:%S (a date without a time, a date with
\* slashes); there is no second format.  A string that differs from
\* YYYY-MM-DD HH:MM:SS only in fields without their leading zero is taken,
\* as the date-time it names.
C14_FailsUnlessStrptimeTakesIt ==
    op = "filter" =>
        /\ args.ref.kind \in {"ymd", "slash"}
               => (err = InvalidTimestampFormat /\ result = NoResult)
        /\ args.ref.kind \in {"ymd_hms", "ymd_hms_loose"} => err # InvalidTimestampFormat
        /\ (args.ref.kind = "ymd_hms_loose" /\ err = "none")
               => result = FilteredTransactions(input, DateTime(args.ref.day, args.ref.sec))

\* A date without a time of day was given for a table with a row in the
\* window that the same day at noon would select: the call failed.
C14_Witness ==
    /\ op = "filter"
    /\ args.ref = Cell("ymd", RefDay, 0)
    /\ err = InvalidTimestampFormat /\ result = NoResult
    /\ \E i \in 1..Len(input) : input[i].ts = Cell("dmy_hms", RefDay - 1, Noon)

\* C15: filter_transactions_by_date has no effect on the dataset passed in:
\* after the call, whether it returns or fails, every row and every field of
\* the caller's dataset, the operation timestamp column included, is what it
\* was before the call.
C15_FilterLeavesDataset ==
    [][op' = "filter" => (data' = data /\ cols' = cols)]_vars

\* The call returned a row whose timestamp is a date-time value, while the
\* same row of the caller's table still holds the text.
C15_Witness ==
    /\ op = "filter" /\ err = "none"
    /\ \E j \in 1..Len(result) : \E i \in 1..Len(data) :
           /\ data[i].idx = result[j].idx
           /\ data[i].ts = Cell("dmy_hms", RefDay, Noon)
           /\ result[j].ts = DateTime(RefDay, Noon)
    /\ \E i \in 1..Len(data) : data[i].ts = Cell("junk", 0, 0)
    /\ data = input

\* A row whose operation timestamp cannot be parsed as DD.MM.YYYY HH:MM:SS:
\* a date without a time of day, text that is no date, or no value.
Unparseable(r) == r.ts.kind \in {"dmy", "junk", "nat"}

\* C16: in filter_transactions_by_date a row whose operation timestamp cannot
\* be parsed as DD.MM.YYYY HH:MM:SS never appears in the result and never
\* makes the call fail; the other rows are filtered as if that row were absent.
C16_UnparseableRowsDropped ==
    (op = "filter" /\ err # InvalidTimestampFormat /\ ColDate \in cols) =>
        LET Parseable(r) == ~Unparseable(r)
            others == SelectSeq(input, Parseable)
        IN  /\ err = "none"
            /\ \A j \in 1..Len(result) : ~Unparseable(RowAt(input, result[j].idx))
            /\ result = FilteredTransactions(others, DateTime(args.ref.day, args.ref.sec))

\* A table with a date-only timestamp on the reference day, a text that is no
\* date and a row inside the window: only the last is returned.
C16_Witness ==
    /\ op = "filter" /\ err = "none"
    /\ args.ref = Cell("ymd_hms", RefDay, Noon)
    /\ Len(input) = 3
    /\ input[1].ts = Cell("dmy", RefDay, 0)
    /\ input[2].ts = Cell("junk", 0, 0)
    /\ input[3].ts = Cell("dmy_hms", RefDay, Noon)
    /\ Labels(result) = {2}

-----------------------------------------------------------------------------
(* Claims about the checks of the columns *)

MissingColumns == "ValueError: missing columns"

\* C17: calculate_card_info fails with the missing-columns error whenever the
\* dataset lacks the card_number column or the amount_of_operation column,
\* and returns no partial result.
C17_CardColumnsRequired ==
    op = "cards" =>
        /\ (ColCard \notin cols \/ ColAmountOp \notin cols)
               => (err = MissingColumns /\ result = NoResult /\ card_info = <<>>)
        /\ err = MissingColumns => (ColCard \notin cols \/ ColAmountOp \notin cols)

\* A table with rows and the card number column but no amount column.
C17_Witness ==
    /\ op = "cards"
    /\ ColCard \in cols /\ ColAmountOp \notin cols
    /\ Len(input) = 2
    /\ err = MissingColumns /\ result = NoResult

\* C18: get_top_5_transactions fails with the missing-columns error whenever
\* the dataset lacks the operation_timestamp column or the amount_of_payment
\* column.
C18_TopColumnsRequired ==
    op = "top5" =>
        /\ (ColDate \notin cols \/ ColAmountPay \notin cols)
               => (err = MissingColumns /\ result = NoResult /\ data = input)
        /\ err = MissingColumns => (ColDate \notin cols \/ ColAmountPay \notin cols)

\* A table with rows, the timestamp, category and description columns but no
\* payment column.
C18_Witness ==
    /\ op = "top5"
    /\ cols = {ColDate, ColCategory, ColDescription}
    /\ Len(input) = 2
    /\ err = MissingColumns /\ result = NoResult

-----------------------------------------------------------------------------
(* Claims about the checks of the arguments of the category report *)

InvalidDataset == "ValueError: transactions must be a DataFrame"
InvalidCategory == "ValueError: category must be a string"

\* C19: spending_by_category fails with the invalid-argument-type error when
\* the dataset argument is not a table, and when the category argument is not
\* text; the dataset is checked first, and both are checked before the date is
\* parsed.
C19_ArgumentTypesChecked ==
    op = "rows" =>
        /\ ~args.is_table => (err = InvalidDataset /\ result = NoResult)
        /\ (args.is_table /\ args.category.na) => (err = InvalidCategory /\ result = NoResult)
        /\ err = InvalidDataset => ~args.is_table
        /\ err = InvalidCategory => (args.is_table /\ args.category.na)

\* A call whose three arguments are all wrong reports the dataset, and a call
\* with a category that is no text and a date of no known form reports the
\* category.
C19_WitnessDataset ==
    /\ op = "rows" /\ ~args.is_table /\ args.category.na
    /\ err = InvalidDataset

C19_Witness ==
    /\ op = "rows" /\ args.is_table /\ args.category.na
    /\ args.ref.kind = "slash"
    /\ err = InvalidCategory /\ result = NoResult
    /\ input # <<>>

-----------------------------------------------------------------------------
(* Claims about the clock *)

\* Two calls of the same variant of the category report, one after the other
\* on the same table, that both returned.
SameVariantTwice ==
    /\ op \in {"rows", "sum"} /\ op' = op
    /\ err = "none" /\ err' = "none"
    /\ args'.category = args.category

\* C20: when the date is omitted the reference point is the clock reading the
\* call takes: the result is the result of the same call with that reading
\* passed as the date; and with a date given the result depends on the
\* dataset, the category and the date only (not on the clock).
C20_ClockOnlyWhenDateOmitted ==
    [][/\ (SameVariantTwice /\ args.ref.kind = "none" /\ args'.ref = args.now)
              => result' = result
       /\ (SameVariantTwice /\ args'.ref.kind = "none" /\ args.ref = args'.now)
              => result' = result
       /\ (SameVariantTwice /\ args.ref.kind # "none" /\ args'.ref = args.ref
              /\ input' = input)
              => result' = result]_vars

\* A call without a date, the clock at noon of the reference day, has returned
\* a row of that day at noon, which the clock reading of the day before would
\* not select.
C20_Witness ==
    /\ op = "rows" /\ err = "none"
    /\ args.ref.kind = "none" /\ args.now = DateTime(RefDay, Noon)
    /\ Len(input) = 2
    /\ input[1].ts = Cell("dmy_hms", RefDay, Noon)
    /\ input[2].ts = Cell("dmy", RefDay - 1, 0)
    /\ Len(result) = 2 /\ result[1].ts = DateTime(RefDay, Noon)

-----------------------------------------------------------------------------
(* Claims about the transaction search *)

\* The positions of the input the search is to return: maps in which the
\* query occurs, letter case apart, at some offset of the description or of
\* the category (an absent field being empty text).
OccursIn(q, cell) ==
    LET text == IF cell.na THEN <<>> ELSE cell.v
    IN  \E k \in 0..Len(text) :
            /\ k + Len(q) <= Len(text)
            /\ \A t \in 1..Len(q) : LowerOf(q[t]) = LowerOf(text[k + t])

SearchWanted ==
    {i \in 1..Len(input) :
        /\ input[i].is_map
        /\ OccursIn(args.query, input[i].description) \/ OccursIn(args.query, input[i].category)}

\* C21: the search returns exactly the input records in which the query,
\* letter case apart, is a substring of the description or of the category, in
\* their input order; entries that are no maps are skipped without error, and
\* no match gives the empty array.
C21_SearchReturnsMatches ==
    op = "search" =>
        /\ err = "none"
        /\ Len(result) = Cardinality(SearchWanted)
        /\ \E f \in [1..Len(result) -> 1..Len(input)] :
               /\ \A j \in 1..Len(result) : f[j] \in SearchWanted /\ result[j] = input[f[j]]
               /\ \A j, k \in 1..Len(result) : j < k => f[j] < f[k]
        /\ (SearchWanted = {} => result = <<>>)

\* The query in capitals on a sequence with a description in small letters, an
\* entry that is no map and a category in capitals: the two maps are returned.
C21_Witness ==
    /\ op = "search"
    /\ args.query = SearchTexts.cinema_caps
    /\ input = <<Entry(Card(SearchTexts.in_cinema), NoCard), NotAMap,
                 Entry(NoCard, Card(SearchTexts.cinema_caps))>>
    /\ result = <<input[1], input[3]>>

-----------------------------------------------------------------------------
(* Further claims about get_top_5_transactions *)

\* C22: get_top_5_transactions does not drop a row whose operation timestamp
\* cannot be parsed as DD.MM.YYYY HH:MM:SS: the row is ranked by its payment
\* like any other row and, when selected, is in the output with a null date;
\* every other selected row has its date as DD.MM.YYYY without a time.
C22_UnparsedRowsKept ==
    TopReturned =>
        /\ \A i \in 1..Len(input) :
               (/\ Unparseable(input[i])
                /\ \/ Len(input) <= 5
                   \/ \E j \in 1..Len(result) :
                          ~NotBelow(result[j].amount, input[i].amount_pay))
                   => \E j \in 1..Len(result) : InputPosition(result[j]) = i
        /\ \A j \in 1..Len(result) :
               LET r == input[InputPosition(result[j])]
               IN  result[j].date = (IF Unparseable(r) THEN NaT ELSE Cell("dmy", r.ts.day, 0))

\* Six rows, the first with a timestamp that is no date: it is returned second,
\* after the larger payment, with a null date.
C22_Witness ==
    /\ TopReturned
    /\ Len(input) = 6
    /\ input[1].ts = Cell("junk", 0, 0) /\ input[1].amount_pay = Num(10000)
    /\ input[2].ts = Cell("dmy_hms", RefDay, Noon) /\ input[2].amount_pay = Num(20000)
    /\ \A i \in 3..6 : input[i].amount_pay.na
    /\ result[1].date = Cell("dmy", RefDay, 0)
    /\ result[2].date = NaT /\ result[2].amount = Num(10000)

-----------------------------------------------------------------------------
(* Further claims about the category report *)

\* A call of spending_by_category whose arguments pass every check, on a
\* table that has the timestamp and the category column.
RowsCallTaken ==
    /\ op = "rows"
    /\ args.is_table /\ ~args.category.na
    /\ args.ref.kind \in {"none", "ymd_hms", "ymd_hms_loose", "ymd", "datetime"}
    /\ {ColDate, ColCategory} \subseteq cols

\* C23: in spending_by_category a row whose operation timestamp value cannot
\* be parsed is coerced to the null marker and left out of the 90-day window;
\* it does not abort the operation, and the remaining rows are filtered and
\* returned.
C23_UnparsedValuesCoerced ==
    (RowsCallTaken /\ \E i \in 1..Len(input) : input[i].ts.kind = "junk") =>
        /\ err = "none"
        /\ Labels(result) =
               {input[i].idx : i \in {k \in 1..Len(input) :
                   /\ input[k].ts.kind # "junk"
                   /\ ~input[k].category.na /\ input[k].category.v = args.category.v
                   /\ HasLenientTimestamp(input[k])
                   /\ ReferencePoint - 90 * SecondsPerDay <= LenientTimestampOf(input[k])
                   /\ LenientTimestampOf(input[k]) <= ReferencePoint}}

-----------------------------------------------------------------------------
(* Claims about main *)

\* The table the filter returns from the rows of the operations file.
FreshSnapshot == FilteredTransactions(operations_file, StrptimeYmdHms(MainDate))

\* C24: in main (load, filter, card summaries, ranking of the filtered
\* table) no step changes what another step still needs: the loaded table
\* holds what the file holds at every point of the run, and the card summaries
\* are those of the table the filter returned, whether the ranking has run on
\* that table before them or not.
C24_PipelineStepsIndependent ==
    /\ data = operations_file
    /\ op = "cards" =>
           /\ err = "none"
           /\ result = CardsData(CardInfoFrame(FreshSnapshot))

\* The card summaries were computed after the ranking, of a table with rows
\* outside the window and a timestamp that is no date.
C24_Witness ==
    /\ pc = {"filter", "cards", "top5"}
    /\ op = "cards"
    /\ Len(result) >= 1
    /\ Len(transactions) < Len(data)
    /\ \E i \in 1..Len(data) : data[i].ts.kind = "junk"

-----------------------------------------------------------------------------
(* Claims about one table passed to several operations *)

\* The ranking of a table: the records of one of the orders the sort may give.
TopOfFresh(table) ==
    {TopRecords([j \in 1..Len(h) |-> ParseColumnStrict(table)[h[j]]]) :
        h \in SortedHeads(table)}

\* C25: when get_top_5_transactions and spending_by_category are applied
\* one after the other to one table, the later parse wins: after a call the
\* timestamp column holds what that call's parse alone gives from
\* the raw timestamps, and the call returns (or fails) as it does on a fresh
\* copy of the table as loaded.
C25_LaterParseWins ==
    /\ (op = "top5" /\ err = "none") =>
           /\ data = ParseColumnStrict(operations_file)
           /\ result \in TopOfFresh(operations_file)
    /\ (op = "rows" /\ RowsCallTaken) =>
           /\ (err = "none") = ColumnParses(operations_file)
           /\ err = "none" =>
                  /\ data = ParseColumnLenient(operations_file)
                  /\ result = FilteredByDate(operations_file, args.category,
                                             ReferenceDate(args.ref, args.now))

-----------------------------------------------------------------------------
(* Further claims about get_top_5_transactions *)

\* The call was made on a table with the two columns the check asks for.
RankedWithRequiredColumns == op = "top5" /\ {ColDate, ColAmountPay} \subseteq cols

\* C26: get_top_5_transactions on a table that has the timestamp and the
\* payment column but lacks the category or the description column returns
\* no records: the call fails, and not with the missing-columns error of the
\* check of the columns.
C26_OtherColumnsFailLater ==
    (RankedWithRequiredColumns /\ (ColCategory \notin cols \/ ColDescription \notin cols)) =>
        /\ err \notin {"none", "ValueError: missing columns"}
        /\ result = NoResult

\* A table with rows and without the description column was ranked.
C26_Witness ==
    /\ RankedWithRequiredColumns
    /\ ColDescription \notin cols /\ ColCategory \in cols
    /\ Len(input) >= 1
    /\ err = "KeyError"

\* The time of day of a row's timestamp under the lenient parse, in seconds.
LenientTimeOfDay(r) == IF r.ts.kind = "dmy" THEN 0 ELSE r.ts.sec

\* C27: when spending_by_category is given a date without a time of day,
\* the reference point is the midnight that starts that day: of the rows of
\* the category dated on the reference day, the rows at exactly 00:00:00 are
\* returned and the rows at any later time are not.
C27_DateOnlyIsMidnight ==
    (RowsReturned /\ args.ref.kind = "ymd") =>
        \A i \in 1..Len(input) :
            (/\ CategoryIs(input[i].category, args.category)
             /\ HasLenientTimestamp(input[i])
             /\ input[i].ts.day = args.ref.day)
                => (input[i].idx \in Labels(result) <=> LenientTimeOfDay(input[i]) = 0)

\* A row at midnight and a row at noon of the reference day: the first is
\* returned, the second not.
C27_Witness ==
    /\ RowsReturned /\ args.ref = Cell("ymd", RefDay, 0)
    /\ Len(input) = 2
    /\ input[1].ts = Cell("dmy_hms", RefDay, 0) /\ input[1].category = args.category
    /\ input[2].ts = Cell("dmy_hms", RefDay, Noon) /\ input[2].category = args.category
    /\ Labels(result) = {0}

\* The errors of the checks of the arguments.
ArgumentErrors ==
    {"ValueError: missing columns", "ValueError: transactions must be a DataFrame",
     "ValueError: category must be a string", "ValueError: invalid date format",
     "ValueError: date must be a datetime"}

\* C28: an operation that rejects its arguments leaves the caller's table
\* as it was: when get_top_5_transactions fails the check of its columns, or
\* spending_by_category fails the check of the dataset, of the category or of
\* the date, the timestamp column of the table passed in is what it was before
\* the call.
C28_RejectedCallLeavesTable ==
    (op \in {"top5", "rows"} /\ err \in ArgumentErrors) =>
        /\ Len(data) = Len(input)
        /\ \A i \in 1..Len(data) : data[i].ts = input[i].ts

\* The ranking was refused for a table with raw timestamps.
C28_Witness ==
    /\ op = "top5" /\ err = "ValueError: missing columns"
    /\ ColDate \in cols
    /\ \E i \in 1..Len(input) : input[i].ts.kind = "dmy_hms"

\* The report was refused, for its date, for a table with raw timestamps.
C28_WitnessReport ==
    /\ op = "rows" /\ err = "ValueError: invalid date format"
    /\ \E i \in 1..Len(input) : input[i].ts.kind = "dmy_hms"

-----------------------------------------------------------------------------
(* The ranking as a selection *)

\* The positions in the input of the rows the records were made from.
SelectedPositions == {InputPosition(result[j]) : j \in 1..Len(result)}

\* C29: get_top_5_transactions selects a maximal set: every record is made
\* from an input row of its own, with that row's amount, category and
\* description; every input row that is left out has a payment not above any
\* payment returned; rows without a payment rank after all rows with one.
C29_TopIsMaximal ==
    TopReturned =>
        /\ \A j \in 1..Len(result) :
               /\ \E i \in 1..Len(input) : input[i].description = result[j].description
               /\ input[InputPosition(result[j])].amount_pay = result[j].amount
               /\ input[InputPosition(result[j])].category = result[j].category
        /\ Cardinality(SelectedPositions) = Len(result)
        /\ \A i \in (1..Len(input)) \ SelectedPositions : \A j \in 1..Len(result) :
               NotBelow(result[j].amount, input[i].amount_pay)
        /\ \A j, k \in 1..Len(result) :
               (j < k /\ result[j].amount.na) => result[k].amount.na

\* Six rows, payments of 100.00 and 200.00 and rows without a payment: the
\* five records hold both payments, and a row without a payment is left out.
C29_Witness ==
    /\ TopReturned
    /\ Len(input) = 6 /\ Len(result) = 5
    /\ result[1].amount = Num(20000)
    /\ \E j \in 2..5 : result[j].amount = Num(10000)
    /\ \E i \in (1..Len(input)) \ SelectedPositions : input[i].amount_pay.na

-----------------------------------------------------------------------------
(* The filter as a selection *)

\* The position in the input of the row with the index label of a returned row.
PositionOf(row) == CHOOSE i \in 1..Len(input) : input[i].idx = row.idx

\* C30: filter_transactions_by_date is order-preserving and idempotent: the
\* rows returned are rows of the input, in the order of the input, each with
\* the cells and the moment of its input row; and the filter applied to the
\* table it returned, with the same reference, returns the same rows.
C30_FilterIdempotent ==
    (op = "filter" /\ err = "none") =>
        /\ \A j \in 1..Len(result) :
               /\ \E i \in 1..Len(input) : input[i].idx = result[j].idx
               /\ HasTimestamp(input[PositionOf(result[j])])
               /\ TimestampOf(input[PositionOf(result[j])]) = TimestampOf(result[j])
               /\ [result[j] EXCEPT !.ts = input[PositionOf(result[j])].ts]
                      = input[PositionOf(result[j])]
        /\ \A j, k \in 1..Len(result) :
               j < k => PositionOf(result[j]) < PositionOf(result[k])
        /\ pc = {"refilter"} => result = input

\* The filter dropped a row of the loaded table, returned two, and returned
\* the same two from the table it had returned.
C30_Witness ==
    /\ op = "filter" /\ err = "none" /\ pc = {"refilter"}
    /\ Len(data) = 3 /\ Len(input) = 2 /\ Len(result) = 2
    /\ data[1].ts.kind = "junk" /\ data[2].ts.kind = "dmy_hms"

=============================================================================
